---- MODULE Spec2Model ----
(***************************************************************************)
(* MemoryStore (src/bot/memory.py): a per-owner record store kept in one   *)
(* SQLite table "memories".  The table is a set of rows, sqlite_sequence   *)
(* is the AUTOINCREMENT counter, and every method of the class is an       *)
(* action.  Strings that the code converts (content, tags) are sequences   *)
(* of one-character strings, so that strip() is computed and not assumed.  *)
(***************************************************************************)
EXTENDS Integers, Sequences, FiniteSets, TLC

VARIABLES
    rows,        \* the table memories: a set of rows
    seq,         \* sqlite_sequence.seq of memories: the largest id ever assigned
    now,         \* int(time.time())
    op,          \* the last call that returned: its method name
    caller,      \* ... the owner_id of the store it was called on
    arg,         \* ... its arguments
    ret,         \* ... what it returned or raised
    pre,         \* ... the table when it was called
    prevDedupe,  \* the owner whose dedupe_profiles was the call before the last, or 0
    prevAdd,     \* the owner, kind and content of the add that was the call before
                 \* the last, if it was one that returned
    issued,      \* every id add has returned so far
    unclosed,    \* whether a connection that a call has opened is still open
    pc,          \* per connection: "idle", "selected" (dedupe_profiles between its
                 \* SELECT and its DELETE) or "done"
    call,        \* per connection: the call it runs or has run, with its result
    base         \* the table when the concurrent calls started

vars == <<rows, seq, now, op, caller, arg, ret, pre, prevDedupe, prevAdd, issued, unclosed,
          pc, call, base>>

seqVars == <<op, caller, arg, ret, pre, prevDedupe, prevAdd, issued, unclosed>>
concVars == <<pc, call, base>>

-----------------------------------------------------------------------------
(* Bounds of the model *)

\* add is called at most MaxAdds times
MaxAdds == 2

-----------------------------------------------------------------------------
(* Python values *)

\* An optional argument: None, or Some(x)
None == <<>>
Some(x) == <<x>>
IsNone(x) == x = <<>>
The(x) == x[1]

\* An argument that int() is applied to: an int, or a str
PyInt(n) == [ty |-> "int", n |-> n, s |-> <<>>]
PyStr(s) == [ty |-> "str", n |-> 0, s |-> s]

\* What a call gives back: a value, or an exception
Return(v) == [ok |-> TRUE, v |-> <<v>>, err |-> ""]
Raise(e) == [ok |-> FALSE, v |-> <<>>, err |-> e]
Val(r) == r.v[1]

IsSpace(c) == c \in {" ", "\n", "\t"}

RECURSIVE lstrip(_)
lstrip(s) == IF s = <<>> THEN s
             ELSE IF IsSpace(Head(s)) THEN lstrip(Tail(s)) ELSE s

RECURSIVE rstrip(_)
rstrip(s) == IF s = <<>> THEN s
             ELSE IF IsSpace(s[Len(s)]) THEN rstrip(SubSeq(s, 1, Len(s) - 1)) ELSE s

\* str.strip()
strip(s) == rstrip(lstrip(s))

DigitValue(c) == CASE c = "0" -> 0 [] c = "1" -> 1 [] c = "2" -> 2 [] c = "3" -> 3
                   [] c = "4" -> 4 [] c = "5" -> 5 [] c = "6" -> 6 [] c = "7" -> 7
                   [] c = "8" -> 8 [] c = "9" -> 9 [] OTHER -> -1

RECURSIVE ParseDigits(_, _)
ParseDigits(s, acc) ==
    IF s = <<>> THEN acc
    ELSE IF DigitValue(Head(s)) < 0 THEN -1
    ELSE ParseDigits(Tail(s), 10 * acc + DigitValue(Head(s)))

\* int(x) can be computed: x is an int, or a str of decimal digits (surrounding
\* whitespace allowed)
IntOk(x) == \/ x.ty = "int"
            \/ x.ty = "str" /\ strip(x.s) # <<>> /\ ParseDigits(strip(x.s), 0) >= 0

\* int(x)
int(x) == IF x.ty = "int" THEN x.n ELSE ParseDigits(strip(x.s), 0)

Min(a, b) == IF a <= b THEN a ELSE b

Max(S) == CHOOSE x \in S : \A y \in S : y <= x

Least(S) == CHOOSE x \in S : \A y \in S : x <= y

-----------------------------------------------------------------------------
(* The table *)

Row(id, o, k, c, t, i, ts) ==
    [id |-> id, owner_id |-> o, kind |-> k, content |-> c, tags |-> t,
     importance |-> i, created_at |-> ts]

\* WHERE owner_id=?
OwnerRows(tbl, o) == {r \in tbl : r.owner_id = o}

\* KindRows with "owner_id=? AND" left out of the WHERE
KindRowsOfAnyOwner(tbl, o, k) == {r \in tbl : r.kind = k}

\* WHERE owner_id=? AND kind=?
KindRows(tbl, o, k) == {r \in tbl : r.owner_id = o /\ r.kind = k}

\* The orders in which a SELECT ... ORDER BY may give the rows S, before being
\* the pairs <<x, y>> of which the ORDER BY puts x strictly first: every order in
\* which no row comes after a row it is put before.  SQL leaves the order of rows
\* with equal sort keys to the engine.
OrderBy(S, before) ==
    {f \in [1..Cardinality(S) -> S] :
        /\ \A i, j \in 1..Cardinality(S) : i # j => f[i] # f[j]
        /\ \A i, j \in 1..Cardinality(S) : i < j => <<f[j], f[i]>> \notin before}

\* LIMIT n: a negative n is no limit
Limit(s, n) == IF n < 0 THEN s ELSE SubSeq(s, 1, Min(n, Len(s)))

Outcome(tbl, sq, r) == [rows |-> tbl, seq |-> sq, ret |-> r]

\* A storage failure (sqlite3.OperationalError) of a call: the connection's
\* context manager rolls back, the exception reaches the caller
StorageFailure(tbl, sq) == Outcome(tbl, sq, Raise("OperationalError"))

-----------------------------------------------------------------------------
(* add *)

\* NextId with AUTOINCREMENT left out of the column: one more than the largest
\* id now in the table
NextIdOfRowid(tbl, sq) == Max({0} \cup {r.id : r \in tbl}) + 1

\* INTEGER PRIMARY KEY AUTOINCREMENT: one more than the largest id the table
\* has ever held
NextId(tbl, sq) == Max({sq} \cup {r.id : r \in tbl}) + 1

\* NewRow with content and tags as they are given
NewRowRaw(id, o, a, t) ==
    Row(id, o, The(a.kind), The(a.content), The(a.tags), int(a.importance), t)

\* The row add inserts: content and tags stripped, importance coerced
NewRow(id, o, a, t) ==
    Row(id, o, The(a.kind), strip(The(a.content)), strip(The(a.tags)),
        int(a.importance), t)

add(tbl, sq, t, o, a) ==
    IF IsNone(a.content) \/ IsNone(a.tags)
    THEN {Outcome(tbl, sq, Raise("AttributeError"))}
    ELSE IF ~IntOk(a.importance)
    THEN {Outcome(tbl, sq, Raise("ValueError"))}
    ELSE IF IsNone(a.kind)
    THEN {Outcome(tbl, sq, Raise("IntegrityError"))}
    ELSE {Outcome(tbl \cup {NewRow(NextId(tbl, sq), o, a, t)}, NextId(tbl, sq),
                  Return(NextId(tbl, sq))),
          StorageFailure(tbl, sq)}

-----------------------------------------------------------------------------
(* latest, format_context, has_profile *)

\* NewerFirst with DESC left out
OlderFirst(x, y) == x.created_at < y.created_at

\* ORDER BY created_at DESC
NewerFirst(x, y) == x.created_at > y.created_at

\* SELECT id, kind, content, importance
Columns(f) == [i \in 1..Len(f) |-> <<f[i].id, f[i].kind, f[i].content, f[i].importance>>]

latest(tbl, sq, t, o, a) ==
    {Outcome(tbl, sq, Return(Limit(Columns(f), int(a.limit)))) :
        f \in OrderBy(OwnerRows(tbl, o),
                      {p \in OwnerRows(tbl, o) \X OwnerRows(tbl, o) : NewerFirst(p[1], p[2])})}
    \cup {StorageFailure(tbl, sq)}

RECURSIVE Digits(_)
Digits(n) == IF n < 10 THEN <<CHOOSE c \in {"0", "1", "2", "3", "4", "5", "6", "7", "8", "9"} :
                                  DigitValue(c) = n>>
             ELSE Digits(n \div 10) \o Digits(n % 10)

\* f"- [{kind}][imp:{imp}] {content}", as the sequence of its pieces
FormatLine(r) == <<"- [", r[2], "][imp:">> \o Digits(r[4]) \o <<"] ">> \o r[3]

\* The lines one after the other with nothing between them
RECURSIVE JoinNoSeparator(_)
JoinNoSeparator(lines) == IF Len(lines) = 0 THEN <<>>
                          ELSE lines[1] \o JoinNoSeparator(Tail(lines))

\* "\n".join(lines)
RECURSIVE Join(_)
Join(lines) == IF Len(lines) = 0 THEN <<>>
               ELSE IF Len(lines) = 1 THEN lines[1]
               ELSE lines[1] \o <<"\n">> \o Join(Tail(lines))

format_context(tbl, sq, t, o, a) ==
    {IF out.ret.ok
     THEN Outcome(tbl, sq,
                  Return(IF Len(Val(out.ret)) = 0 THEN <<>>
                         ELSE Join([i \in 1..Len(Val(out.ret)) |->
                                       FormatLine(Val(out.ret)[i])])))
     ELSE out : out \in latest(tbl, sq, t, o, a)}

\* has_profile with the kind left out of the WHERE
has_row(tbl, sq, t, o, a) ==
    {Outcome(tbl, sq, Return(OwnerRows(tbl, o) # {})),
     StorageFailure(tbl, sq)}

has_profile(tbl, sq, t, o, a) ==
    {Outcome(tbl, sq, Return(KindRows(tbl, o, "profile") # {})),
     StorageFailure(tbl, sq)}

-----------------------------------------------------------------------------
(* dedupe_profiles *)

\* ORDER BY importance DESC, created_at DESC
ProfileOrder(x, y) ==
    \/ x.importance > y.importance
    \/ x.importance = y.importance /\ x.created_at > y.created_at

\* key = (content or "").strip()
Key(r) == strip(r.content)

\* The SELECT of dedupe_profiles: the owner's profile rows, in one of the
\* orders the ORDER BY allows
SelectProfiles(tbl, o) ==
    OrderBy(KindRows(tbl, o, "profile"),
            {p \in KindRows(tbl, o, "profile") \X KindRows(tbl, o, "profile") :
                ProfileOrder(p[1], p[2])})

\* Seen with the key added to the set before it is looked up
SeenAfterAdd(f, i) == \E j \in 1..i : Key(f[j]) = Key(f[i])

\* delete_ids with no row ever taken for a duplicate
delete_ids_none(f) == {}

\* The walk over the fetched rows f: a row whose key was seen goes to
\* delete_ids, the others to keep_ids
Seen(f, i) == \E j \in 1..(i - 1) : Key(f[j]) = Key(f[i])
delete_ids(f) == {f[i].id : i \in {i \in 1..Len(f) : Seen(f, i)}}
keep_ids(f) == {f[i].id : i \in {i \in 1..Len(f) : ~Seen(f, i)}}

\* DeleteIn with the DELETE never executed
DeleteNothing(tbl, ids) == tbl

\* DELETE FROM memories WHERE id IN (...)
DeleteIn(tbl, ids) == {r \in tbl : r.id \notin ids}

\* Rollback with the exception caught and the connection committed
NoRollback(before, partial) == partial

\* Leaving "with self._conn() as c" by an exception rolls back what the
\* statements of the call did so far
Rollback(before, partial) == before

\* The tables a DELETE of the ids may have reached when the storage fails in it
PartialDeletes(tbl, ids) == {DeleteIn(tbl, d) : d \in SUBSET ids}

dedupe_profiles(tbl, sq, t, o, a) ==
    {Outcome(DeleteIn(tbl, delete_ids(f)), sq,
             Return(<<Cardinality(keep_ids(f)), Cardinality(delete_ids(f))>>)) :
        f \in SelectProfiles(tbl, o)}
    \cup {StorageFailure(tbl, sq)}
    \cup {Outcome(Rollback(tbl, part), sq, Raise("OperationalError")) :
            part \in UNION {PartialDeletes(tbl, delete_ids(f)) : f \in SelectProfiles(tbl, o)}}

-----------------------------------------------------------------------------
(* delete_profiles, delete_duplicates, delete_exact *)

\* delete_profiles with the kind left out of the WHERE
delete_owner_rows(tbl, sq, t, o, a) ==
    {Outcome(tbl \ OwnerRows(tbl, o), sq, Return(Cardinality(OwnerRows(tbl, o)))),
     StorageFailure(tbl, sq)}

delete_profiles(tbl, sq, t, o, a) ==
    {Outcome(tbl \ KindRows(tbl, o, "profile"), sq,
             Return(Cardinality(KindRows(tbl, o, "profile")))),
     StorageFailure(tbl, sq)}

\* "if kind:": None and the empty string are false
Truthy(k) == ~IsNone(k) /\ The(k) # ""

\* The rows the statement of delete_duplicates ranges over: WHERE owner_id = ?
\* AND kind = ? in the first branch, WHERE owner_id = ? in the second
Considered(tbl, o, k) ==
    IF Truthy(k) THEN KindRows(tbl, o, The(k)) ELSE OwnerRows(tbl, o)

\* GROUP BY owner_id, kind, content, tags
SameGroup(x, y) ==
    /\ x.owner_id = y.owner_id
    /\ x.kind = y.kind
    /\ x.content = y.content
    /\ x.tags = y.tags

\* MaxIds with MIN(id) in the subquery
MinIds(S) == {Least({y.id : y \in {y \in S : SameGroup(x, y)}}) : x \in S}

\* SELECT MAX(id) ... GROUP BY ...
MaxIds(S) == {Max({y.id : y \in {y \in S : SameGroup(x, y)}}) : x \in S}

\* The rows the DELETE removes: id NOT IN (the subquery), within the same WHERE
Duplicates(tbl, o, k) ==
    {r \in Considered(tbl, o, k) : r.id \notin MaxIds(Considered(tbl, o, k))}

delete_duplicates(tbl, sq, t, o, a) ==
    {Outcome(tbl \ Duplicates(tbl, o, a.kind), sq,
             Return(Cardinality(Duplicates(tbl, o, a.kind)))),
     StorageFailure(tbl, sq)}

\* ExactRows with the kind left out of the WHERE
ExactRowsAnyKind(tbl, o, k, c) == {r \in tbl : r.owner_id = o /\ r.content = c}

\* WHERE owner_id = ? AND kind = ? AND content = ?
ExactRows(tbl, o, k, c) == {r \in tbl : r.owner_id = o /\ r.kind = k /\ r.content = c}

\* delete_exact with the content stripped as add strips it
delete_exact_trimmed(tbl, sq, t, o, a) ==
    {Outcome(tbl \ ExactRows(tbl, o, a.kind, strip(a.content)), sq,
             Return(Cardinality(ExactRows(tbl, o, a.kind, strip(a.content))))),
     StorageFailure(tbl, sq)}

delete_exact(tbl, sq, t, o, a) ==
    {Outcome(tbl \ ExactRows(tbl, o, a.kind, a.content), sq,
             Return(Cardinality(ExactRows(tbl, o, a.kind, a.content)))),
     StorageFailure(tbl, sq)}

\* construct with CREATE TABLE after a DROP TABLE: the table is made anew
construct_anew(tbl, sq, t, o, a) == {Outcome({}, sq, Return(o)), StorageFailure(tbl, sq)}

\* MemoryStore(db_path, owner_id): CREATE TABLE IF NOT EXISTS, CREATE INDEX IF
\* NOT EXISTS
construct(tbl, sq, t, o, a) == {Outcome(tbl, sq, Return(o)), StorageFailure(tbl, sq)}

\* The outcomes of the call name(a) on a store of owner o
Outcomes(name, tbl, sq, t, o, a) ==
    CASE name = "add" -> add(tbl, sq, t, o, a)
      [] name = "latest" -> latest(tbl, sq, t, o, a)
      [] name = "format_context" -> format_context(tbl, sq, t, o, a)
      [] name = "has_profile" -> has_profile(tbl, sq, t, o, a)
      [] name = "dedupe_profiles" -> dedupe_profiles(tbl, sq, t, o, a)
      [] name = "delete_profiles" -> delete_profiles(tbl, sq, t, o, a)
      [] name = "delete_duplicates" -> delete_duplicates(tbl, sq, t, o, a)
      [] name = "delete_exact" -> delete_exact(tbl, sq, t, o, a)
      [] name = "__init__" -> construct(tbl, sq, t, o, a)

-----------------------------------------------------------------------------
(* The arguments the calls are made with *)

Owners == {1, 2}
Kinds == {"profile", "note", ""}
Limits == {-1, 0, 1}

Args(k, c, g, i) == [kind |-> k, content |-> c, tags |-> g, importance |-> i]

\* add is called with these arguments on a store of owner o: rows that agree and
\* differ in each column that a method reads, and arguments that make add raise
AddArgs(o) ==
    IF o = 1
    THEN {Args(Some("profile"), Some(<<"a">>), Some(<<>>), PyInt(3)),
          Args(Some("profile"), Some(<<" ", "a">>), Some(<<>>), PyStr(<<"5", " ">>)),
          Args(Some("profile"), Some(<<"b">>), Some(<<>>), PyInt(3)),
          Args(Some("profile"), Some(<<"a">>), Some(<<"t", " ">>), PyInt(3)),
          Args(Some(""), Some(<<"a">>), Some(<<>>), PyInt(3)),
          Args(Some("note"), Some(<<"a">>), Some(<<>>), PyInt(3)),
          Args(Some("note"), Some(<<"a", "\n", "b">>), Some(<<>>), PyInt(3)),
          Args(Some("note"), None, Some(<<>>), PyInt(3)),
          Args(Some("note"), Some(<<"a">>), Some(<<>>), PyStr(<<"x">>)),
          Args(None, Some(<<"a">>), Some(<<>>), PyInt(3))}
    ELSE {Args(Some("profile"), Some(<<"a">>), Some(<<>>), PyInt(3))}

LimitArgs == {[limit |-> PyInt(n)] : n \in Limits}
KindArgs == {[kind |-> k] : k \in {None} \cup {Some(k) : k \in Kinds}}
ExactArgs == [kind : {"profile", ""}, content : {<<"a">>, <<" ", "a">>}]
NoArgs == <<>>

-----------------------------------------------------------------------------
(* One caller: every call returns before the next is made *)

Conns == {1, 2}

NoCall == ""

\* What a connection holds of its call: the method, the owner of its store, the
\* arguments, the result, and in dedupe_profiles the local keep_ids and delete_ids
CallOf(name, o, a, r, k, d) ==
    [op |-> name, owner |-> o, arg |-> a, ret |-> r, keep_ids |-> k, delete_ids |-> d]

NoAdd == [owner |-> 0, kind |-> "", content |-> <<>>]

NoCallYet == CallOf(NoCall, 0, NoArgs, Return(0), {}, {})

Init ==
    /\ rows = {}
    /\ seq = 0
    /\ now = 0
    /\ op = NoCall
    /\ caller = 0
    /\ arg = NoArgs
    /\ ret = Return(0)
    /\ pre = [rows |-> {}, seq |-> 0]
    /\ prevDedupe = 0
    /\ prevAdd = NoAdd
    /\ issued = <<>>
    /\ unclosed = FALSE
    /\ pc = [p \in Conns |-> "idle"]
    /\ call = [p \in Conns |-> NoCallYet]
    /\ base = [rows |-> {}, seq |-> 0]

\* self._conn(): sqlite3.connect(self.db_path), a connection of the call's own
Opened == TRUE

\* What "with self._conn() as c:" does to the connection when the block is
\* left, by return or by exception: Connection.__exit__ commits or rolls back
\* and does not close, and no method calls close()
AfterWith(open) == open

\* The call name(a) on a store of owner o, from entry to return
Do(name, o, a) ==
    \E out \in Outcomes(name, rows, seq, now, o, a) :
        /\ rows' = out.rows
        /\ seq' = out.seq
        /\ ret' = out.ret
        /\ op' = name
        /\ caller' = o
        /\ arg' = a
        /\ pre' = [rows |-> rows, seq |-> seq]
        /\ issued' = IF name = "add" /\ out.ret.ok THEN Append(issued, Val(out.ret))
                     ELSE issued
        /\ unclosed' = AfterWith(Opened)
        /\ UNCHANGED <<now, prevDedupe, prevAdd, concVars>>

\* The caller has the result of the call and goes on; what stays of the call
\* is whether it was a dedupe_profiles that returned
Continue ==
    /\ op # NoCall
    /\ op' = NoCall
    /\ caller' = 0
    /\ arg' = NoArgs
    /\ ret' = Return(0)
    /\ pre' = [rows |-> {}, seq |-> 0]
    /\ prevDedupe' = IF op = "dedupe_profiles" /\ ret.ok THEN caller ELSE 0
    /\ prevAdd' = IF op = "add" /\ ret.ok
                  THEN [owner |-> caller, kind |-> The(arg.kind), content |-> The(arg.content)]
                  ELSE NoAdd
    /\ UNCHANGED <<rows, seq, now, issued, unclosed, concVars>>

Construct ==
    /\ op = NoCall
    /\ \E o \in Owners : Do("__init__", o, NoArgs)

Add ==
    /\ op = NoCall
    /\ Len(issued) < MaxAdds
    /\ \E o \in Owners : \E a \in AddArgs(o) : Do("add", o, a)

Latest ==
    /\ op = NoCall
    /\ \E o \in Owners : \E a \in LimitArgs : Do("latest", o, a)

FormatContext ==
    /\ op = NoCall
    /\ \E o \in Owners : \E a \in LimitArgs : Do("format_context", o, a)

HasProfile ==
    /\ op = NoCall
    /\ \E o \in Owners : Do("has_profile", o, NoArgs)

DedupeProfiles ==
    /\ op = NoCall
    /\ \E o \in Owners : Do("dedupe_profiles", o, NoArgs)

DeleteProfiles ==
    /\ op = NoCall
    /\ \E o \in Owners : Do("delete_profiles", o, NoArgs)

DeleteDuplicates ==
    /\ op = NoCall
    /\ \E o \in Owners : \E a \in KindArgs : Do("delete_duplicates", o, a)

DeleteExact ==
    /\ op = NoCall
    /\ \E o \in Owners : \E a \in ExactArgs : Do("delete_exact", o, a)

\* A second passes on the clock.  Only add reads the clock and only the order
\* of the values of created_at is read by the code, so the seconds told apart
\* are one for each add made, while an add can still follow.
Tick == /\ op = NoCall
        /\ now < Len(issued)
        /\ Len(issued) < MaxAdds
        /\ now' = now + 1
        /\ UNCHANGED <<rows, seq, seqVars, concVars>>

\* The interpreter collects the connection objects that the calls have left
\* behind, and that closes them; when it does is not the caller's to say
Collect ==
    /\ op = NoCall
    /\ unclosed
    /\ unclosed' = FALSE
    /\ UNCHANGED <<rows, seq, now, op, caller, arg, ret, pre, prevDedupe, prevAdd, issued,
                   concVars>>

Next ==
    \/ Construct
    \/ Add
    \/ Latest
    \/ FormatContext
    \/ HasProfile
    \/ DedupeProfiles
    \/ DeleteProfiles
    \/ DeleteDuplicates
    \/ DeleteExact
    \/ Continue
    \/ Collect
    \/ Tick

Spec == Init /\ [][Next]_vars

-----------------------------------------------------------------------------
(* Two connections: store instances on the same file, used at the same time.   *)
(* A statement that writes runs in a transaction of its own that the "with"    *)
(* block commits, so a call of one statement is one step.  dedupe_profiles is   *)
(* two steps: its SELECT is not in a transaction (the sqlite3 module opens one  *)
(* before INSERT, UPDATE and DELETE only) and fetchall() ends the read, so      *)
(* another connection can write before the DELETE runs.                         *)

Idle == \A p \in Conns : pc[p] = "idle"

\* The calls a connection makes on a store of owner o
ConcCalls(o) ==
    {<<"dedupe_profiles", NoArgs>>,
     <<"delete_profiles", NoArgs>>,
     <<"delete_duplicates", [kind |-> Some("profile")]>>,
     <<"delete_duplicates", [kind |-> None]>>,
     <<"delete_exact", [kind |-> "profile", content |-> <<"a">>]>>,
     <<"has_profile", NoArgs>>,
     <<"add", Args(Some("profile"), Some(<<"a">>), Some(<<>>), PyInt(3))>>}

\* The table is filled before the connections start
Populate ==
    /\ Idle
    /\ Len(issued) < MaxAdds
    /\ \E o \in Owners : \E a \in AddArgs(o) : \E out \in add(rows, seq, now, o, a) :
        /\ out.ret.ok
        /\ rows' = out.rows
        /\ seq' = out.seq
        /\ issued' = Append(issued, Val(out.ret))
    /\ UNCHANGED <<now, op, caller, arg, ret, pre, prevDedupe, prevAdd, unclosed, concVars>>

Elapse ==
    /\ Idle
    /\ now < Len(issued)
    /\ Len(issued) < MaxAdds
    /\ now' = now + 1
    /\ UNCHANGED <<rows, seq, seqVars, concVars>>

\* The table at the start of the first of the concurrent calls
BaseNow == IF Idle THEN [rows |-> rows, seq |-> seq] ELSE base

\* Connection p makes a call of one statement
Statement(p) ==
    /\ pc[p] = "idle"
    /\ \E o \in Owners : \E c \in ConcCalls(o) :
        /\ c[1] # "dedupe_profiles"
        /\ \E out \in Outcomes(c[1], rows, seq, now, o, c[2]) :
            /\ out.ret.ok
            /\ rows' = out.rows
            /\ seq' = out.seq
            /\ call' = [call EXCEPT ![p] = CallOf(c[1], o, c[2], out.ret, {}, {})]
    /\ pc' = [pc EXCEPT ![p] = "done"]
    /\ base' = BaseNow
    /\ UNCHANGED <<now, seqVars>>

\* Connection p enters dedupe_profiles: the SELECT and the walk over its rows
DedupeSelect(p) ==
    /\ pc[p] = "idle"
    /\ \E o \in Owners : \E f \in SelectProfiles(rows, o) :
        call' = [call EXCEPT ![p] =
                    CallOf("dedupe_profiles", o, NoArgs, Return(0), keep_ids(f), delete_ids(f))]
    /\ pc' = [pc EXCEPT ![p] = "selected"]
    /\ base' = BaseNow
    /\ UNCHANGED <<rows, seq, now, seqVars>>

\* Connection p goes on in dedupe_profiles: "if delete_ids:" the DELETE, then the
\* return of the two lengths
DedupeDelete(p) ==
    /\ pc[p] = "selected"
    /\ rows' = IF call[p].delete_ids # {} THEN DeleteIn(rows, call[p].delete_ids) ELSE rows
    /\ call' = [call EXCEPT ![p].ret =
                    Return(<<Cardinality(call[p].keep_ids), Cardinality(call[p].delete_ids)>>)]
    /\ pc' = [pc EXCEPT ![p] = "done"]
    /\ UNCHANGED <<seq, now, base, seqVars>>

NextConc ==
    \/ Populate
    \/ Elapse
    \/ \E p \in Conns : Statement(p)
    \/ \E p \in Conns : DedupeSelect(p)
    \/ \E p \in Conns : DedupeDelete(p)

SpecConc == Init /\ [][NextConc]_vars

\* The two calls, run one after the other from the table base with p first, can
\* return what they returned and leave the table that is left
SerialOrder(p, q) ==
    \E o1 \in Outcomes(call[p].op, base.rows, base.seq, now, call[p].owner, call[p].arg) :
        /\ o1.ret = call[p].ret
        /\ \E o2 \in Outcomes(call[q].op, o1.rows, o1.seq, now, call[q].owner, call[q].arg) :
            /\ o2.ret = call[q].ret
            /\ o2.rows = rows

AllDone == \A p \in Conns : pc[p] = "done"

-----------------------------------------------------------------------------
(* What the claims speak of *)

\* The last call was name, and it returned
Returned(name) == op = name /\ ret.ok

\* The owner's profile rows
Profiles(tbl, o) == {r \in tbl : r.owner_id = o /\ r.kind = "profile"}

ContentsOf(S) == {r.content : r \in S}

\* C1 (as claimed): of two profile rows of the owner with the same content,
\* dedupe_profiles removes the one of lower importance, and of two of equal
\* importance the one added earlier, also when both carry the same created_at.
C1_PriorityLaw ==
    Returned("dedupe_profiles") =>
        \A x, y \in Profiles(pre.rows, caller) :
            /\ x.content = y.content
            /\ \/ x.importance > y.importance
               \/ x.importance = y.importance /\ x.id > y.id
            => y \notin rows

\* C2: dedupe_profiles returns (kept, deleted), kept the number of distinct
\* contents among the owner's profile rows before the call and deleted the number
\* of rows removed; kept + deleted is the number of profile rows before; afterwards
\* no two profile rows of the owner share a content and no content is lost.
C2_DedupeCounts ==
    Returned("dedupe_profiles") =>
        LET P == Profiles(pre.rows, caller)
            Q == Profiles(rows, caller)
        IN  /\ rows \subseteq pre.rows
            /\ Val(ret)[1] = Cardinality(ContentsOf(P))
            /\ Val(ret)[2] = Cardinality(pre.rows \ rows)
            /\ Val(ret)[1] + Val(ret)[2] = Cardinality(P)
            /\ \A x, y \in Q : x.content = y.content => x = y
            /\ ContentsOf(Q) = ContentsOf(P)

C2_Witness ==
    /\ Returned("dedupe_profiles")
    /\ Val(ret) = <<1, 1>>
    /\ Cardinality(Profiles(pre.rows, caller)) = 2

\* The rows delete_duplicates(kind) considers
GroupKey(r) == <<r.owner_id, r.kind, r.content, r.tags>>

\* C3: delete_duplicates keeps of every (owner_id, kind, content, tags) group
\* among the rows it considers exactly the row of the highest id, removes the other
\* rows of the group and no other row, and returns the number of rows removed,
\* which is the rows considered minus the groups.
C3_KeepsHighestId ==
    Returned("delete_duplicates") =>
        LET S == Considered(pre.rows, caller, arg.kind)
        IN  /\ \A x \in S :
                 x \in rows <=> \A y \in S : GroupKey(y) = GroupKey(x) => y.id <= x.id
            /\ pre.rows \ S = rows \ S
            /\ rows \subseteq pre.rows
            /\ Val(ret) = Cardinality(pre.rows \ rows)
            /\ Val(ret) = Cardinality(S) - Cardinality({GroupKey(x) : x \in S})

C3_Witness ==
    /\ Returned("delete_duplicates")
    /\ Val(ret) = 1
    /\ \E x \in rows : x.id = 2

\* C4 (as claimed): delete_duplicates called with a kind, the empty string
\* included, leaves every row of another kind in the table.
C4_OnlyThatKind ==
    Returned("delete_duplicates") /\ ~IsNone(arg.kind) =>
        \A r \in pre.rows : r.kind # The(arg.kind) => r \in rows

\* C5: a call on a store of owner A returns what it returns on the table
\* without the rows of the other owners, does to A's rows what it does there, and
\* leaves the rows of the other owners as they were.
C5_OwnerIsolation ==
    op # NoCall =>
        /\ pre.rows \ OwnerRows(pre.rows, caller) = rows \ OwnerRows(rows, caller)
        /\ \E out \in Outcomes(op, OwnerRows(pre.rows, caller), pre.seq, now, caller, arg) :
              /\ out.ret = ret
              /\ out.rows = OwnerRows(rows, caller)

C5_Witness ==
    /\ Returned("delete_exact")
    /\ Val(ret) = 1
    /\ \E r \in rows : r.owner_id # caller /\ r.kind = arg.kind /\ r.content = arg.content

\* C7: a dedupe_profiles that follows a dedupe_profiles of the same owner, no call
\* between them, removes no row, leaves the table as it was and returns as kept the
\* number of the owner's profile rows the first call left.
C7_DedupeIdempotent ==
    Returned("dedupe_profiles") /\ prevDedupe = caller =>
        /\ Val(ret)[2] = 0
        /\ rows = pre.rows
        /\ Val(ret)[1] = Cardinality(Profiles(pre.rows, caller))

C7_Witness ==
    /\ Returned("dedupe_profiles")
    /\ prevDedupe = caller
    /\ Val(ret) = <<1, 0>>
    /\ seq = 2
    /\ Cardinality(rows) = 1

\* C8: every id add returns is greater than every id add returned before, so no
\* id is given twice, also when rows were removed between the adds.
C8_IdsIncrease ==
    \A i, j \in 1..Len(issued) : i < j => issued[i] < issued[j]

C8_Witness ==
    /\ Returned("add")
    /\ Len(issued) = 2
    /\ pre.rows = {}

\* The created_at of the row that an entry <<id, kind, content, importance>> of
\* latest's result was read from
CreatedAt(e) == (CHOOSE r \in pre.rows : r.id = e[1]).created_at

\* Every entry of latest's result is a row of the caller's owner
OwnRowsOnly(L) ==
    \A i \in 1..Len(L) :
        \E r \in OwnerRows(pre.rows, caller) :
            L[i] = <<r.id, r.kind, r.content, r.importance>>

\* ... and the entries are in the order of created_at, the newest first
NewestFirst(L) ==
    \A i, j \in 1..Len(L) : i < j => CreatedAt(L[i]) >= CreatedAt(L[j])

\* C9 (as claimed): latest(n) returns at most n rows for every integer n, zero
\* and the negative ones included, all of the owner, the newest first, and
\* min(n, the owner's rows) of them when n >= 0.
C9_AtMostLimit ==
    Returned("latest") =>
        LET n == int(arg.limit)
            L == Val(ret)
        IN  /\ Len(L) <= n
            /\ OwnRowsOnly(L)
            /\ NewestFirst(L)
            /\ n >= 0 => Len(L) = Min(n, Cardinality(OwnerRows(pre.rows, caller)))

\* C9 (amended): latest(n) returns min(n, the owner's rows) rows when n >= 0 and
\* all the owner's rows when n < 0; the rows are rows of the owner, each once, the
\* newest first.
C9_Latest ==
    Returned("latest") =>
        LET n == int(arg.limit)
            L == Val(ret)
            own == Cardinality(OwnerRows(pre.rows, caller))
        IN  /\ Len(L) = IF n < 0 THEN own ELSE Min(n, own)
            /\ OwnRowsOnly(L)
            /\ \A i, j \in 1..Len(L) : i # j => L[i][1] # L[j][1]
            /\ NewestFirst(L)

C9_Witness ==
    /\ Returned("latest")
    /\ int(arg.limit) < 0
    /\ Len(Val(ret)) = 2
    /\ CreatedAt(Val(ret)[1]) > CreatedAt(Val(ret)[2])

\* The arguments with which add cannot insert a row
Malformed(a) == IsNone(a.kind) \/ IsNone(a.content) \/ IsNone(a.tags) \/ ~IntOk(a.importance)

\* C10: a call that fails raises its exception to the caller and leaves the table
\* as it was before the call; add with a content or an importance it cannot use
\* fails.
C10_NoPartialSuccess ==
    /\ op # NoCall /\ ~ret.ok => ret.err # "" /\ rows = pre.rows /\ seq = pre.seq
    /\ op = "add" /\ Malformed(arg) => ~ret.ok

C10_Witness ==
    /\ op = "dedupe_profiles"
    /\ ~ret.ok
    /\ \E x, y \in Profiles(rows, caller) : x # y /\ x.content = y.content

\* C6 (as claimed): when the calls of two connections on the same file have
\* returned, the table and the two results are those of the two calls run one
\* after the other, in one of the two orders.
C6_Serializable == AllDone => SerialOrder(1, 2) \/ SerialOrder(2, 1)

\* The text cut at its newlines
RECURSIVE SplitLines(_)
SplitLines(s) ==
    IF \A i \in 1..Len(s) : s[i] # "\n" THEN <<s>>
    ELSE LET i == Least({j \in 1..Len(s) : s[j] = "\n"})
         IN <<SubSeq(s, 1, i - 1)>> \o SplitLines(SubSeq(s, i + 1, Len(s)))

\* - [<kind>][imp:<importance>] <content>
LineOf(r) == <<"- [", r[2], "][imp:">> \o Digits(r[4]) \o <<"] ">> \o r[3]

\* The lines of the rows f, each after the first behind one newline
RECURSIVE Rendered(_)
Rendered(f) ==
    IF Len(f) = 0 THEN <<>>
    ELSE Rendered(SubSeq(f, 1, Len(f) - 1))
         \o (IF Len(f) = 1 THEN <<>> ELSE <<"\n">>) \o LineOf(f[Len(f)])

\* The newlines inside the contents of the rows f
RECURSIVE Newlines(_)
Newlines(f) ==
    IF Len(f) = 0 THEN 0
    ELSE Cardinality({j \in 1..Len(f[1][3]) : f[1][3][j] = "\n"}) + Newlines(Tail(f))

\* What latest(limit) can return in the state format_context was called in
LatestReturns == {Val(out.ret) : out \in {x \in latest(pre.rows, pre.seq, now, caller, arg) :
                                              x.ret.ok}}

C12_DeleteExact ==
    Returned("delete_exact") =>
        LET gone == {r \in pre.rows : /\ r.owner_id = caller
                                      /\ r.kind = arg.kind
                                      /\ r.content = arg.content}
        IN /\ rows = pre.rows \ gone
           /\ Val(ret) = Cardinality(gone)
           /\ seq = pre.seq

\* delete_exact has removed one row and left a row of the same owner and the
\* same content but of another kind
C12_Witness ==
    /\ Returned("delete_exact")
    /\ Val(ret) = 1
    /\ \E r \in rows : r.owner_id = caller /\ r.content = arg.content /\ r.kind # arg.kind

\* What has_profile() returns on a store of owner o in this state
HasProfileNow(o) ==
    {Val(out.ret) : out \in {x \in has_profile(rows, seq, now, o, NoArgs) : x.ret.ok}}

\* C13: in every reachable state has_profile() is true if and only if the table
\* holds a row of the owner whose kind is "profile": false before any profile
\* is inserted, true right after add("profile", ...), false again once every
\* profile row of the owner is deleted.
C13_HasProfile ==
    /\ \A o \in Owners : HasProfileNow(o) = {Profiles(rows, o) # {}}
    /\ Returned("has_profile") =>
           Val(ret) = (Profiles(pre.rows, caller) # {}) /\ rows = pre.rows
    /\ issued = <<>> => \A o \in Owners : HasProfileNow(o) = {FALSE}
    /\ Returned("add") /\ arg.kind = Some("profile") => HasProfileNow(caller) = {TRUE}
    /\ Returned("delete_profiles") => HasProfileNow(caller) = {FALSE}

\* has_profile has returned false on a store whose owner has a row, while
\* another owner has a profile
C13_Witness ==
    /\ Returned("has_profile")
    /\ Val(ret) = FALSE
    /\ \E r \in rows : r.owner_id = caller
    /\ \E r \in rows : r.owner_id # caller /\ r.kind = "profile"

\* The owner's rows that are no profile
NonProfiles(tbl, o) == {r \in tbl : r.owner_id = o /\ r.kind # "profile"}

\* C14: delete_profiles removes every row of the owner with kind "profile" and
\* nothing else, and returns the number of such rows before the call; right
\* afterwards has_profile() is false and the owner's other rows are unchanged.
C14_DeleteProfiles ==
    Returned("delete_profiles") =>
        /\ rows = pre.rows \ Profiles(pre.rows, caller)
        /\ Val(ret) = Cardinality(Profiles(pre.rows, caller))
        /\ HasProfileNow(caller) = {FALSE}
        /\ NonProfiles(rows, caller) = NonProfiles(pre.rows, caller)

\* delete_profiles has removed a profile and left another row of its owner
C14_Witness ==
    /\ Returned("delete_profiles")
    /\ Val(ret) = 1
    /\ NonProfiles(rows, caller) # {}

\* C15: the table changes only by add inserting one new row or by a deletion
\* removing rows; constructing a store again on the file, latest,
\* format_context and has_profile leave the table as it is, and no call changes
\* a field of a row that stays in the table.
C15_Frame ==
    op # NoCall =>
        /\ op \in {"__init__", "latest", "format_context", "has_profile"} => rows = pre.rows
        /\ op = "add" =>
               IF ret.ok
               THEN /\ pre.rows \subseteq rows
                    /\ Cardinality(rows \ pre.rows) = 1
                    /\ \A r \in rows \ pre.rows : \A q \in pre.rows : r.id # q.id
               ELSE rows = pre.rows
        /\ op \in {"dedupe_profiles", "delete_profiles", "delete_duplicates", "delete_exact"}
               => rows \subseteq pre.rows
        /\ \A r \in rows : \A q \in pre.rows : r.id = q.id => r = q

\* A store has been constructed on a file whose table holds a row
C15_Witness == Returned("__init__") /\ rows # {}

\* The characters str.strip() takes off
Whitespace == {" ", "\t", "\n"}

\* The string has no whitespace at either end
Trimmed(s) == Len(s) = 0 \/ (s[1] \notin Whitespace /\ s[Len(s)] \notin Whitespace)

\* s is t with whitespace only taken off its two ends
TrimOf(s, t) ==
    /\ Trimmed(s)
    /\ \E i \in 0..Len(t) : \E j \in 0..Len(t) :
           /\ i + Len(s) + j = Len(t)
           /\ \A k \in 1..Len(s) : s[k] = t[i + k]
           /\ \A k \in (1..i) \cup ((Len(t) - j + 1)..Len(t)) : t[k] \in Whitespace

\* C16: in every reachable state every row has content and tags without
\* whitespace at either end: add stores both trimmed and the kind as given.
\* Every row has an owner_id, a kind, a content and a created_at: add with no
\* kind or no content raises and stores nothing.
C16_StoredTrimmed ==
    /\ \A r \in rows : Trimmed(r.content) /\ Trimmed(r.tags)
    /\ \A r \in rows : r.owner_id \in Owners /\ r.kind \in Kinds /\ r.created_at \in 0..now
    /\ Returned("add") =>
           /\ ~IsNone(arg.kind) /\ ~IsNone(arg.content)
           /\ \A r \in rows \ pre.rows :
                  /\ r.owner_id = caller
                  /\ r.kind = The(arg.kind)
                  /\ TrimOf(r.content, The(arg.content))
                  /\ TrimOf(r.tags, The(arg.tags))
                  /\ r.created_at = now
    /\ op = "add" /\ (IsNone(arg.kind) \/ IsNone(arg.content)) =>
           ~ret.ok /\ rows = pre.rows

\* add has stored a content that was given with whitespace in front
C16_Witness ==
    /\ Returned("add")
    /\ ~Trimmed(The(arg.content))
    /\ \E r \in rows \ pre.rows : r.content # The(arg.content)

\* C17: every operation, and construction, opens a connection of its own and
\* has closed it when it returns, on the normal path and on every error path,
\* so that after any sequence of calls no connection of the store is open.
C17_ConnectionsClosed == ~unclosed

\* C18: under any interleaving of dedupe_profiles and delete_duplicates calls
\* made at the same time by stores of the same owner on the same file, every
\* profile content that was in the table before the calls still has a row
\* after all of them have finished.
C18_KeepsLastCopy ==
    /\ AllDone
    /\ \A p \in Conns : call[p].op \in {"dedupe_profiles", "delete_duplicates"}
    /\ \A p \in Conns : call[p].owner = call[1].owner
    => ContentsOf(Profiles(base.rows, call[1].owner))
           \subseteq ContentsOf(Profiles(rows, call[1].owner))

\* C19: right after dedupe_profiles() has returned, delete_duplicates("profile")
\* on the same owner deletes no row and leaves the table as it is.
C19_DedupeSubsumes ==
    Returned("delete_duplicates") /\ arg.kind = Some("profile") /\ prevDedupe = caller =>
        Val(ret) = 0 /\ rows = pre.rows

\* delete_duplicates("profile") has returned right after a dedupe_profiles of
\* the same owner that left one profile of two
C19_Witness ==
    /\ Returned("delete_duplicates")
    /\ arg.kind = Some("profile")
    /\ prevDedupe = caller
    /\ seq = 2
    /\ Cardinality(Profiles(rows, caller)) = 1
    /\ Cardinality(rows) = 1

\* The last call is delete_exact with the owner, kind and content of the add
\* that returned right before it
AfterItsAdd ==
    /\ Returned("delete_exact")
    /\ prevAdd = [owner |-> caller, kind |-> arg.kind, content |-> arg.content]

\* The row of the add made last
LastAdded == {r \in pre.rows : r.id = issued[Len(issued)]}

\* C20 as stated: for every kind and every content, with whitespace at its ends
\* or without, add(kind, content) followed at once by delete_exact(kind,
\* content) removes the row just added and returns at least 1.
C20_RoundTrip ==
    AfterItsAdd => Val(ret) >= 1 /\ LastAdded \cap rows = {}

\* C20: for every kind and every content without whitespace at its ends,
\* add(kind, content) followed at once by delete_exact(kind, content) removes
\* the row just added and returns at least 1; for a content with whitespace at
\* an end, delete_exact(kind, content) returns 0 and the row just added, which
\* holds the trimmed content, stays.
C20_RoundTripTrimmed ==
    AfterItsAdd =>
        /\ LastAdded # {}
        /\ IF Trimmed(arg.content)
           THEN Val(ret) >= 1 /\ LastAdded \cap rows = {}
           ELSE Val(ret) = 0 /\ LastAdded \subseteq rows /\ rows = pre.rows

\* delete_exact has removed the row that the add before it stored, and another
\* row stays
C20_Witness ==
    /\ AfterItsAdd
    /\ Trimmed(arg.content)
    /\ Val(ret) = 1
    /\ rows # {}

====
